---- MODULE Spec2Model ----
(***************************************************************************)
(* A model of src/main.py, the product dashboard generator: a module-level *)
(* script that loads a CSV into a pandas DataFrame, cleans it, aggregates  *)
(* sample_loading_time per group, renders charts and writes index.html,    *)
(* plus the client-side script embedded in that page.                      *)
(*                                                                         *)
(* Text is a sequence of one-character strings.  Statistics are exact      *)
(* rationals; a standard deviation is kept as its square (the variance),   *)
(* which determines it, since the root of a non-negative number is unique. *)
(* The chipLot column, which no claim reads, is left out of the rows.      *)
(***************************************************************************)
EXTENDS Integers, Sequences, FiniteSets, TLC

VARIABLES
    pc,                         \* the statement of the script to run next
    csv,                        \* the rows of data/..._looker.csv, as text
    index_html,                 \* the file index.html on disk
    prior_index,                \* index.html as it was when the run started
    failed_at,                  \* the stage whose exception ended the run
    df,                         \* the DataFrame df
    cleaned,                    \* df as line 26 left it
    logo_base64,
    views,                      \* chip_batch_fig and instrument_fig
    unique_chip_batches,
    unique_instruments,
    batch_comparison_fig,
    instrument_comparison_fig,
    bar_fig,                    \* a figure returned by create_bar_plot
    html_content,
    client_plot                 \* what updateComparisonPlot last drew

vars == <<pc, csv, index_html, prior_index, failed_at, df, cleaned,
          logo_base64, views, unique_chip_batches, unique_instruments,
          batch_comparison_fig, instrument_comparison_fig, bar_fig,
          html_content, client_plot>>

----------------------------------------------------------------------------
(* Bounds of the model *)

MaxRows == 3

MaxAggRows == 3

----------------------------------------------------------------------------
(* Text and numbers *)

None == [none |-> TRUE]

Digits == <<"0", "1", "2", "3", "4", "5", "6", "7", "8", "9">>

IsDigit(c) == \E i \in 1..10 : Digits[i] = c

DigitVal(c) == (CHOOSE i \in 1..10 : Digits[i] = c) - 1

AllDigits(t) == \A i \in 1..Len(t) : IsDigit(t[i])

\* The code point of a character (Python compares str by code point).
Ord(c) ==
    CASE c = "-" -> 45
      [] c = "." -> 46
      [] IsDigit(c) -> 48 + DigitVal(c)
      [] c = "A" -> 65
      [] c = "B" -> 66
      [] c = "C" -> 67
      [] c = "D" -> 68
      [] c = "a" -> 97
      [] c = "b" -> 98
      [] c = "d" -> 100
      [] c = "f" -> 102
      [] c = "i" -> 105
      [] c = "n" -> 110

RECURSIVE Pow10(_)
Pow10(k) == IF k = 0 THEN 1 ELSE 10 * Pow10(k - 1)

RECURSIVE DigitsToNat(_)
DigitsToNat(t) ==
    IF t = <<>> THEN 0
    ELSE 10 * DigitsToNat(SubSeq(t, 1, Len(t) - 1)) + DigitVal(t[Len(t)])

RECURSIVE NatToStr(_)
NatToStr(n) ==
    IF n < 10 THEN <<Digits[n + 1]>>
    ELSE NatToStr(n \div 10) \o <<Digits[(n % 10) + 1]>>

\* str(n) of a Python or numpy integer.
IntToStr(n) == IF n < 0 THEN <<"-">> \o NatToStr(-n) ELSE NatToStr(n)

HasSign(t) == Len(t) > 0 /\ t[1] \in {"-", "+"}

Unsigned(t) == IF HasSign(t) THEN Tail(t) ELSE t

\* Text the CSV parser and to_numeric read as an integer.
IsIntText(t) == Unsigned(t) # <<>> /\ AllDigits(Unsigned(t))

ParseInt(t) ==
    IF HasSign(t) /\ t[1] = "-" THEN -DigitsToNat(Unsigned(t))
    ELSE DigitsToNat(Unsigned(t))

DotAt(t) == IF \E i \in 1..Len(t) : t[i] = "."
            THEN CHOOSE i \in 1..Len(t) : t[i] = "." /\ \A j \in 1..(i - 1) : t[j] # "."
            ELSE 0

IsInfText(t) == Unsigned(t) = <<"i", "n", "f">>

\* Text read as a decimal number with a point: digits on at least one side.
IsDecimalText(t) ==
    LET u == Unsigned(t)
        d == DotAt(u)
    IN  /\ d > 0
        /\ Len(u) > 1
        /\ AllDigits(SubSeq(u, 1, d - 1))
        /\ AllDigits(SubSeq(u, d + 1, Len(u)))

IsFloatText(t) == IsIntText(t) \/ IsDecimalText(t) \/ IsInfText(t)

\* A float64: NaN, an infinity, or (-1)^neg * mag / 10^exp.
NaN == [k |-> "nan", neg |-> FALSE, mag |-> 0, exp |-> 0]

Inf(neg) == [k |-> "inf", neg |-> neg, mag |-> 0, exp |-> 0]

Fin(neg, mag, exp) == [k |-> "fin", neg |-> neg, mag |-> mag, exp |-> exp]

ParseFloat(t) ==
    LET u == Unsigned(t)
        neg == HasSign(t) /\ t[1] = "-"
        d == DotAt(u)
    IN  IF IsInfText(t) THEN Inf(neg)
        ELSE IF IsIntText(t) THEN Fin(neg, DigitsToNat(u), 0)
        ELSE IF IsDecimalText(t)
             THEN Fin(neg,
                      DigitsToNat(SubSeq(u, 1, d - 1) \o SubSeq(u, d + 1, Len(u))),
                      Len(u) - d)
        ELSE NaN

RECURSIVE StripTrailingZeros(_)
StripTrailingZeros(t) ==
    IF Len(t) > 1 /\ t[Len(t)] = "0"
    THEN StripTrailingZeros(SubSeq(t, 1, Len(t) - 1))
    ELSE t

RECURSIVE PadLeft(_, _)
PadLeft(t, n) == IF Len(t) >= n THEN t ELSE PadLeft(<<"0">> \o t, n)

\* str(x) of a float: the shortest text that reads back as x.
FloatToStr(x) ==
    IF x.k = "nan" THEN <<"n", "a", "n">>
    ELSE IF x.k = "inf"
         THEN (IF x.neg THEN <<"-">> ELSE <<>>) \o <<"i", "n", "f">>
    ELSE LET p == Pow10(x.exp)
             frac == IF x.exp = 0 THEN <<"0">>
                     ELSE StripTrailingZeros(PadLeft(NatToStr(x.mag % p), x.exp))
         IN  (IF x.neg THEN <<"-">> ELSE <<>>)
                 \o NatToStr(x.mag \div p) \o <<".">> \o frac

\* int(x) of a finite float: the fraction is cut off, toward zero.
TruncFloat(x) ==
    IF x.neg THEN -(x.mag \div Pow10(x.exp)) ELSE x.mag \div Pow10(x.exp)

----------------------------------------------------------------------------
(* Cells of a DataFrame: every cell carries all four fields *)

IntCell(n) == [t |-> "int", i |-> n, s |-> <<>>, f |-> NaN]

FloatCell(x) == [t |-> "float", i |-> 0, s |-> <<>>, f |-> x]

StrCell(text) == [t |-> "str", i |-> 0, s |-> text, f |-> NaN]

NoCell == [t |-> "none", i |-> 0, s |-> <<>>, f |-> NaN]

IsNaCell(c) == c.t = "float" /\ c.f.k = "nan"

----------------------------------------------------------------------------
(* pandas.read_csv, lines 15: each column gets the narrowest type that     *)
(* reads every one of its cells; an empty cell is missing (NaN).           *)

ColumnDtype(texts) ==
    IF Len(texts) = 0 THEN "object"
    ELSE IF \A i \in 1..Len(texts) : IsIntText(texts[i]) THEN "int64"
    ELSE IF \A i \in 1..Len(texts) : texts[i] = <<>> \/ IsFloatText(texts[i])
         THEN "float64"
    ELSE "object"

ReadCell(dtype, text) ==
    IF dtype = "int64" THEN IntCell(ParseInt(text))
    ELSE IF text = <<>> THEN FloatCell(NaN)
    ELSE IF dtype = "float64" THEN FloatCell(ParseFloat(text))
    ELSE StrCell(text)

TextColumn(rows, col) == [i \in 1..Len(rows) |-> rows[i][col]]

read_csv(rows) ==
    LET idType == ColumnDtype(TextColumn(rows, "assayID"))
        batchType == ColumnDtype(TextColumn(rows, "chipBatch"))
    IN  [i \in 1..Len(rows) |->
            [assayID |-> ReadCell(idType, rows[i].assayID),
             Instrument |-> NoCell,
             chipBatch |-> ReadCell(batchType, rows[i].chipBatch),
             sample_loading_time |-> rows[i].sample_loading_time]]

\* Series.astype(str): str() of each value.
CellToStr(c) ==
    IF c.t = "int" THEN IntToStr(c.i)
    ELSE IF c.t = "float" THEN FloatToStr(c.f)
    ELSE c.s

astype_str(data) ==
    [i \in 1..Len(data) |-> [data[i] EXCEPT !.assayID = StrCell(CellToStr(@))]]

\* text[:4]
Prefix4(text) == SubSeq(text, 1, IF Len(text) < 4 THEN Len(text) ELSE 4)

derive_instrument(data) ==
    [i \in 1..Len(data) |->
        [data[i] EXCEPT !.Instrument = StrCell(Prefix4(data[i].assayID.s))]]

\* pd.to_numeric(errors='coerce') of one value: text that is no number
\* becomes NaN, numbers stay.
CoerceCell(c) ==
    IF c.t = "str"
    THEN IF IsIntText(c.s) THEN IntCell(ParseInt(c.s))
         ELSE FloatCell(ParseFloat(c.s))
    ELSE c

to_numeric(data) ==
    [i \in 1..Len(data) |-> [data[i] EXCEPT !.chipBatch = CoerceCell(@)]]

NotNaBatch(r) == ~IsNaCell(r.chipBatch)

dropna(data) == SelectSeq(data, NotNaBatch)

\* astype(int) raises when a value is NaN or infinite.
CanCastInt(data) ==
    \A i \in 1..Len(data) : data[i].chipBatch.t = "float" => data[i].chipBatch.f.k = "fin"

CastIntCell(c) == IF c.t = "float" THEN IntCell(TruncFloat(c.f)) ELSE c

astype_int(data) ==
    [i \in 1..Len(data) |-> [data[i] EXCEPT !.chipBatch = CastIntCell(@)]]

----------------------------------------------------------------------------
(* Exact arithmetic for the statistics *)

Abs(x) == IF x < 0 THEN -x ELSE x

RECURSIVE GCD(_, _)
GCD(a, b) == IF b = 0 THEN a ELSE GCD(b, a % b)

\* The fraction n/d, d > 0, in lowest terms.
Rat(n, d) ==
    LET g == GCD(Abs(n), d)
    IN  [num |-> n \div g, den |-> d \div g]

Num(q) == [nan |-> FALSE, q |-> q]

NanNum == [nan |-> TRUE, q |-> Rat(0, 1)]

RECURSIVE SeqSum(_)
SeqSum(s) == IF s = <<>> THEN 0 ELSE Head(s) + SeqSum(Tail(s))

RECURSIVE SeqMin(_)
SeqMin(s) ==
    IF Len(s) = 1 THEN s[1]
    ELSE LET m == SeqMin(Tail(s)) IN IF Head(s) < m THEN Head(s) ELSE m

\* The last value of a series, which is its maximum only when it is sorted.
SeqMaxOfSorted(s) == s[Len(s)]

RECURSIVE SeqMax(_)
SeqMax(s) ==
    IF Len(s) = 1 THEN s[1]
    ELSE LET m == SeqMax(Tail(s)) IN IF Head(s) > m THEN Head(s) ELSE m

\* Sum over the series of (n*x - sum)^2, which is n^2 times the sum of the
\* squared deviations from the mean.
ScaledSqDev(s) ==
    LET n == Len(s)
        t == SeqSum(s)
    IN  SeqSum([i \in 1..n |-> (n * s[i] - t) * (n * s[i] - t)])

\* pandas 'mean' of a non-empty group.
series_mean(s) == Rat(SeqSum(s), Len(s))

\* pandas 'std' of a group, as its square: the default ddof=1 divides the
\* sum of squared deviations by n - 1, and a single value gives NaN.
series_std(s) ==
    LET n == Len(s)
    IN  IF n < 2 THEN NanNum
        ELSE Num(Rat(ScaledSqDev(s), n * n * (n - 1)))

----------------------------------------------------------------------------
(* Ordering, unique() and sorted() *)

RECURSIVE TextLess(_, _)
TextLess(a, b) ==
    IF b = <<>> THEN FALSE
    ELSE IF a = <<>> THEN TRUE
    ELSE IF Ord(a[1]) # Ord(b[1]) THEN Ord(a[1]) < Ord(b[1])
    ELSE TextLess(Tail(a), Tail(b))

\* a < b for two values of one column: integers by value, str by code point.
CellLess(a, b) == IF a.t = "int" THEN a.i < b.i ELSE TextLess(a.s, b.s)

InSeq(x, s) == \E i \in 1..Len(s) : s[i] = x

\* Series.unique(): the distinct values in order of first appearance.
RECURSIVE unique(_)
unique(s) ==
    IF s = <<>> THEN <<>>
    ELSE LET u == unique(SubSeq(s, 1, Len(s) - 1))
             x == s[Len(s)]
         IN  IF InSeq(x, u) THEN u ELSE Append(u, x)

RECURSIVE InsertSorted(_, _)
InsertSorted(x, s) ==
    IF s = <<>> THEN <<x>>
    ELSE IF CellLess(x, Head(s)) THEN <<x>> \o s
    ELSE <<Head(s)>> \o InsertSorted(x, Tail(s))

\* The list as it is, in order of first appearance.
unsorted(s) == s

\* sorted(list): ascending.
RECURSIVE sorted(_)
sorted(s) ==
    IF s = <<>> THEN <<>>
    ELSE InsertSorted(s[Len(s)], sorted(SubSeq(s, 1, Len(s) - 1)))

Column(data, col) == [i \in 1..Len(data) |-> data[i][col]]

----------------------------------------------------------------------------
(* The aggregator: lines 80-148 and 167-216 *)

\* data[data[col].isin([value1, value2])]
isin_filter(data, col, value1, value2) ==
    LET Keep(r) == r[col] \in {value1, value2}
    IN  SelectSeq(data, Keep)

\* data[data[col] == value]
eq_filter(data, col, value) ==
    LET Keep(r) == r[col] = value
    IN  SelectSeq(data, Keep)

\* groupby(col) ... agg(...).reset_index(): one row per key, keys ascending.
groupby_agg(data, col) ==
    LET keys == sorted(unique(Column(data, col)))
    IN  [k \in 1..Len(keys) |->
            LET s == Column(eq_filter(data, col, keys[k]), "sample_loading_time")
            IN  [key |-> keys[k],
                 mean |-> series_mean(s),
                 std |-> series_std(s),
                 min |-> SeqMin(s),
                 max |-> SeqMax(s),
                 count |-> Len(s)]]

StatsRowsOf(stats, value) ==
    LET Keep(r) == r.key = value
    IN  SelectSeq(stats, Keep)

Max2(a, b) == IF a > b THEN a ELSE b

ErrorFig == [err |-> TRUE]

\* create_radar_plot: .iloc[0] raises IndexError for a batch with no rows.
create_radar_plot(data, batch1, batch2) ==
    LET filtered_data == isin_filter(data, "chipBatch", batch1, batch2)
        stats == groupby_agg(filtered_data, "chipBatch")
        Trace(batch) ==
            LET batch_stats == StatsRowsOf(stats, batch)[1]
            IN  [name |-> batch,
                 mean |-> batch_stats.mean,
                 std |-> batch_stats.std,
                 min |-> batch_stats.min,
                 max |-> batch_stats.max,
                 customdata |-> Column(eq_filter(filtered_data, "chipBatch", batch),
                                       "assayID")]
    IN  IF StatsRowsOf(stats, batch1) = <<>> \/ StatsRowsOf(stats, batch2) = <<>>
        THEN ErrorFig
        ELSE [err |-> FALSE,
              traces |-> <<Trace(batch1), Trace(batch2)>>,
              range_max |-> Max2(SeqMax(Column(stats, "max")),
                                 SeqMax(Column(stats, "count")))]

\* create_bar_plot: the bars are the rows of the grouped statistics.
create_bar_plot(data, group_type, value1, value2) ==
    LET filtered_data == isin_filter(data, group_type, value1, value2)
        stats == groupby_agg(filtered_data, group_type)
    IN  [err |-> FALSE,
         bars |-> [k \in 1..Len(stats) |->
                      [key |-> stats[k].key,
                       mean |-> stats[k].mean,
                       std |-> stats[k].std]]]

create_instrument_comparison_plot(data, instrument1, instrument2) ==
    LET filtered_data == isin_filter(data, "Instrument", instrument1, instrument2)
        Box(instrument) ==
            LET instrument_data == eq_filter(filtered_data, "Instrument", instrument)
            IN  [name |-> instrument,
                 y |-> Column(instrument_data, "sample_loading_time"),
                 customdata |-> Column(instrument_data, "assayID")]
    IN  [err |-> FALSE, traces |-> <<Box(instrument1), Box(instrument2)>>]

\* create_violin_plot / create_boxplot: the chart holds the two plotted
\* columns of the frame it is given.
create_boxplot(data, group_by) ==
    [x |-> Column(data, group_by), y |-> Column(data, "sample_loading_time")]

\* The caller's frame, had the rows of the two batches been kept in place.
create_radar_plot_data_inplace(data, batch1, batch2) ==
    isin_filter(data, "chipBatch", batch1, batch2)

\* The caller's frame after create_radar_plot(data, batch1, batch2): line 82
\* binds the filtered rows to a new name and nothing is assigned to data.
create_radar_plot_data(data, batch1, batch2) == data

----------------------------------------------------------------------------
(* The page: df.to_json(orient='records') and the <option> lists,          *)
(* lines 225-491                                                           *)

JsNumber(n) == [t |-> "number", n |-> n, s |-> <<>>]

JsString(text) == [t |-> "string", n |-> 0, s |-> text]

JsNull == [t |-> "null", n |-> 0, s |-> <<>>]

CellToJson(c) ==
    IF c.t = "int" THEN JsNumber(c.i)
    ELSE IF c.t = "str" THEN JsString(c.s)
    ELSE JsNull

to_json(data) ==
    [i \in 1..Len(data) |->
        [assayID |-> CellToJson(data[i].assayID),
         Instrument |-> CellToJson(data[i].Instrument),
         chipBatch |-> CellToJson(data[i].chipBatch),
         sample_loading_time |-> JsNumber(data[i].sample_loading_time)]]

\* f'<option value="{x}">': the text of each value.
OptionValues(values) == [i \in 1..Len(values) |-> CellToStr(values[i])]

render_html(logo, data, batches, instruments, batch_fig, instrument_fig) ==
    [logo |-> logo,
     data |-> to_json(data),
     batch_options |-> OptionValues(batches),
     instrument_options |-> OptionValues(instruments),
     batch_comparison |-> batch_fig,
     instrument_comparison |-> instrument_fig]

----------------------------------------------------------------------------
(* The embedded script: updateComparisonPlot, lines 322-481                *)

\* parseInt(v)
JsParseInt(v) == IF v.t = "number" THEN v.n ELSE ParseInt(v.s)

\* a === b: same type and same value, no conversion.
JsStrictEq(a, b) == a.t = b.t /\ a.n = b.n /\ a.s = b.s

JsFilter(data, groupType, value) ==
    LET Keep(d) == JsStrictEq(d[groupType], value)
    IN  SelectSeq(data, Keep)

\* The values pushed under one key of the stats object (a property name is
\* the text of the number).
JsGroupValues(filteredData, groupType, key) ==
    LET Keep(d) == IntToStr(JsParseInt(d[groupType])) = key
        rows == SelectSeq(filteredData, Keep)
    IN  [i \in 1..Len(rows) |-> rows[i].sample_loading_time.n]

\* Lines 353-356: the variance divides by count.
JsStd(values) ==
    LET n == Len(values)
    IN  Num(Rat(ScaledSqDev(values), n * n * n))

updateComparisonPlot(page, groupType, value1, value2) ==
    LET data == page.data
        Selected(d) == \/ JsStrictEq(d[groupType], JsString(value1))
                       \/ JsStrictEq(d[groupType], JsString(value2))
        filteredData == SelectSeq(data, Selected)
    IN  IF groupType = "chipBatch"
        THEN LET keys == {IntToStr(JsParseInt(filteredData[i][groupType])) :
                              i \in 1..Len(filteredData)}
                 Trace(value) ==
                     LET values == JsGroupValues(filteredData, groupType, value)
                     IN  [name |-> value,
                          mean |-> Rat(SeqSum(values), Len(values)),
                          std |-> JsStd(values),
                          min |-> SeqMin(values),
                          max |-> SeqMax(values),
                          rows |-> JsFilter(filteredData, groupType, JsString(value))]
             IN  \* stats[value1].mean of a missing key throws TypeError
                 IF value1 \notin keys \/ value2 \notin keys
                 THEN [err |-> TRUE, kind |-> "radar"]
                 ELSE [err |-> FALSE, kind |-> "radar",
                       traces |-> <<Trace(value1), Trace(value2)>>]
        ELSE LET Box(value) ==
                     LET rows == JsFilter(filteredData, groupType, JsString(value))
                     IN  [name |-> value,
                          y |-> [i \in 1..Len(rows) |-> rows[i].sample_loading_time.n]]
             IN  [err |-> FALSE, kind |-> "box",
                  traces |-> <<Box(value1), Box(value2)>>]

----------------------------------------------------------------------------
(* The inputs *)

AssayIDs == {<<"A", "B", "1", "2", "-", "3">>,
             <<"0", "0", "1", "2", "3">>,
             <<"C", "D", "9">>}

BatchTexts == {<<"7">>, <<"1", "0">>, <<"-", "8", ".", "9">>,
               <<"b", "a", "d">>, <<"i", "n", "f">>}

Times == {10}

CsvRows == [assayID : AssayIDs, chipBatch : BatchTexts, sample_loading_time : Times]

CsvFiles == UNION {[1..n -> CsvRows] : n \in 0..MaxRows}

----------------------------------------------------------------------------
(* The run of the script *)

Init ==
    /\ pc = "read_csv"
    /\ csv \in CsvFiles
    /\ index_html \in {"absent", "previous"}
    /\ prior_index = index_html
    /\ failed_at = "none"
    /\ df = <<>>
    /\ cleaned = <<>>
    /\ logo_base64 = "unread"
    /\ views = None
    /\ unique_chip_batches = <<>>
    /\ unique_instruments = <<>>
    /\ batch_comparison_fig = None
    /\ instrument_comparison_fig = None
    /\ bar_fig = None
    /\ html_content = None
    /\ client_plot = None

\* The order of the script's statements, were the output opened before
\* the charts are built.
StageAfterOpenEarly(stage) ==
    CASE stage = "read_csv" -> "clean"
      [] stage = "clean" -> "logo"
      [] stage = "logo" -> "open"
      [] stage = "open" -> "views"
      [] stage = "views" -> "batch_comparison"
      [] stage = "batch_comparison" -> "instrument_comparison"
      [] stage = "instrument_comparison" -> "html"
      [] stage = "html" -> "write"
      [] stage = "write" -> "done"

\* The order of the script's statements: each runs after the one above it.
StageAfter(stage) ==
    CASE stage = "read_csv" -> "clean"
      [] stage = "clean" -> "logo"
      [] stage = "logo" -> "views"
      [] stage = "views" -> "batch_comparison"
      [] stage = "batch_comparison" -> "instrument_comparison"
      [] stage = "instrument_comparison" -> "html"
      [] stage = "html" -> "open"
      [] stage = "open" -> "write"
      [] stage = "write" -> "done"

\* An uncaught exception ends the run; nothing catches it.
Raise(stage) ==
    /\ pc' = "aborted"
    /\ failed_at' = stage

\* Line 15: the file may be missing or unreadable.
ReadCsv ==
    /\ pc = "read_csv"
    /\ \E readable \in BOOLEAN :
        IF readable
        THEN /\ df' = read_csv(csv)
             /\ pc' = StageAfter("read_csv")
             /\ UNCHANGED failed_at
        ELSE /\ Raise("read_csv")
             /\ UNCHANGED df
    /\ UNCHANGED <<csv, index_html, prior_index, cleaned, logo_base64, views,
                   unique_chip_batches, unique_instruments, batch_comparison_fig,
                   instrument_comparison_fig, bar_fig, html_content, client_plot>>

\* Lines 18-26.
Clean ==
    /\ pc = "clean"
    /\ LET kept == dropna(to_numeric(derive_instrument(astype_str(df))))
       IN  IF CanCastInt(kept)
           THEN /\ df' = astype_int(kept)
                /\ cleaned' = astype_int(kept)
                /\ pc' = StageAfter("clean")
                /\ UNCHANGED failed_at
           ELSE /\ df' = kept
                /\ Raise("clean")
                /\ UNCHANGED cleaned
    /\ UNCHANGED <<csv, index_html, prior_index, logo_base64, views,
                   unique_chip_batches, unique_instruments, batch_comparison_fig,
                   instrument_comparison_fig, bar_fig, html_content, client_plot>>

\* Lines 29-33.
ReadLogo ==
    /\ pc = "logo"
    /\ \E readable \in BOOLEAN :
        IF readable
        THEN /\ logo_base64' = "encoded"
             /\ pc' = StageAfter("logo")
             /\ UNCHANGED failed_at
        ELSE /\ Raise("logo")
             /\ UNCHANGED logo_base64
    /\ UNCHANGED <<csv, index_html, prior_index, df, cleaned, views,
                   unique_chip_batches, unique_instruments, batch_comparison_fig,
                   instrument_comparison_fig, bar_fig, html_content, client_plot>>

\* Lines 151-157.
CreateViews ==
    /\ pc = "views"
    /\ views' = [chip_batch_fig |-> create_boxplot(df, "chipBatch"),
                 instrument_fig |-> create_boxplot(df, "Instrument")]
    /\ unique_chip_batches' = sorted(unique(Column(df, "chipBatch")))
    /\ unique_instruments' = sorted(unique(Column(df, "Instrument")))
    /\ pc' = StageAfter("views")
    /\ UNCHANGED <<csv, index_html, prior_index, failed_at, df, cleaned,
                   logo_base64, batch_comparison_fig, instrument_comparison_fig,
                   bar_fig, html_content, client_plot>>

\* Lines 160-164: unique_chip_batches[1] raises IndexError on a shorter list.
BatchComparison ==
    /\ pc = "batch_comparison"
    /\ IF Len(unique_chip_batches) < 2
       THEN /\ Raise("batch_comparison")
            /\ UNCHANGED <<df, batch_comparison_fig>>
       ELSE LET fig == create_radar_plot(df, unique_chip_batches[1],
                                         unique_chip_batches[2])
            IN  /\ df' = create_radar_plot_data(df, unique_chip_batches[1],
                                                unique_chip_batches[2])
                /\ IF fig.err
                   THEN /\ Raise("batch_comparison")
                        /\ UNCHANGED batch_comparison_fig
                   ELSE /\ batch_comparison_fig' = fig
                        /\ pc' = StageAfter("batch_comparison")
                        /\ UNCHANGED failed_at
    /\ UNCHANGED <<csv, index_html, prior_index, cleaned, logo_base64, views,
                   unique_chip_batches, unique_instruments,
                   instrument_comparison_fig, bar_fig, html_content, client_plot>>

\* Lines 218-222.
InstrumentComparison ==
    /\ pc = "instrument_comparison"
    /\ IF Len(unique_instruments) < 2
       THEN /\ Raise("instrument_comparison")
            /\ UNCHANGED instrument_comparison_fig
       ELSE /\ instrument_comparison_fig' =
                   create_instrument_comparison_plot(df, unique_instruments[1],
                                                     unique_instruments[2])
            /\ pc' = StageAfter("instrument_comparison")
            /\ UNCHANGED failed_at
    /\ UNCHANGED <<csv, index_html, prior_index, df, cleaned, logo_base64, views,
                   unique_chip_batches, unique_instruments, batch_comparison_fig,
                   bar_fig, html_content, client_plot>>

\* Lines 225-491.
BuildHtml ==
    /\ pc = "html"
    /\ html_content' = render_html(logo_base64, df, unique_chip_batches,
                                   unique_instruments, batch_comparison_fig,
                                   instrument_comparison_fig)
    /\ pc' = StageAfter("html")
    /\ UNCHANGED <<csv, index_html, prior_index, failed_at, df, cleaned,
                   logo_base64, views, unique_chip_batches, unique_instruments,
                   batch_comparison_fig, instrument_comparison_fig, bar_fig,
                   client_plot>>

\* Line 494: open(..., "w") creates the file or cuts it to length 0.
OpenOutput ==
    /\ pc = "open"
    /\ \E writable \in BOOLEAN :
        IF writable
        THEN /\ index_html' = "empty"
             /\ pc' = StageAfter("open")
             /\ UNCHANGED failed_at
        ELSE /\ Raise("open")
             /\ UNCHANGED index_html
    /\ UNCHANGED <<csv, prior_index, df, cleaned, logo_base64, views,
                   unique_chip_batches, unique_instruments, batch_comparison_fig,
                   instrument_comparison_fig, bar_fig, html_content, client_plot>>

\* Line 495: a failed write leaves what reached the disk; the with block
\* closes the file and removes nothing.
WriteOutput ==
    /\ pc = "write"
    /\ \E written \in {"complete", "partial", "empty"} :
        IF written = "complete"
        THEN /\ index_html' = "complete"
             /\ pc' = StageAfter("write")
             /\ UNCHANGED failed_at
        ELSE /\ index_html' = written
             /\ Raise("write")
    /\ UNCHANGED <<csv, prior_index, df, cleaned, logo_base64, views,
                   unique_chip_batches, unique_instruments, batch_comparison_fig,
                   instrument_comparison_fig, bar_fig, html_content, client_plot>>

Next ==
    \/ ReadCsv
    \/ Clean
    \/ ReadLogo
    \/ CreateViews
    \/ BatchComparison
    \/ InstrumentComparison
    \/ BuildHtml
    \/ OpenOutput
    \/ WriteOutput

Spec == Init /\ [][Next]_vars

----------------------------------------------------------------------------
(* The aggregator and the page's script on their own: a cleaned frame is   *)
(* drawn, the page is rendered from it, and one call is applied to it.     *)

\* The rows a frame is drawn from, as (assayID, chipBatch, time): two
\* instruments and two batches, each of them with all three times.
AggInputs ==
    {<<<<"A", "B", "1", "2", "-", "3">>, 7, 10>>,
     <<<<"A", "B", "1", "2", "-", "3">>, 7, 20>>,
     <<<<"A", "B", "1", "2", "-", "3">>, 8, 30>>,
     <<<<"C", "D", "9", "9", "-", "1">>, 7, 30>>,
     <<<<"C", "D", "9", "9", "-", "1">>, 8, 10>>,
     <<<<"C", "D", "9", "9", "-", "1">>, 8, 20>>}

AggRows ==
    {[assayID |-> StrCell(x[1]),
      Instrument |-> StrCell(Prefix4(x[1])),
      chipBatch |-> IntCell(x[2]),
      sample_loading_time |-> x[3]] : x \in AggInputs}

AggFrames == UNION {[1..n -> AggRows] : n \in 1..MaxAggRows}

InitAgg ==
    /\ pc = "aggregate"
    /\ csv = <<>>
    /\ index_html = "complete"
    /\ prior_index = "absent"
    /\ failed_at = "none"
    /\ df \in AggFrames
    /\ cleaned = df
    /\ logo_base64 = "encoded"
    /\ views = None
    /\ unique_chip_batches = sorted(unique(Column(df, "chipBatch")))
    /\ unique_instruments = sorted(unique(Column(df, "Instrument")))
    /\ batch_comparison_fig = None
    /\ instrument_comparison_fig = None
    /\ bar_fig = None
    /\ html_content = render_html(logo_base64, df, unique_chip_batches,
                                  unique_instruments, None, None)
    /\ client_plot = None

GroupValues(group_type) ==
    IF group_type = "chipBatch" THEN unique_chip_batches ELSE unique_instruments

CallRadarPlot ==
    /\ pc = "aggregate"
    /\ \E i, j \in 1..Len(unique_chip_batches) :
        /\ batch_comparison_fig' =
               create_radar_plot(df, unique_chip_batches[i], unique_chip_batches[j])
        /\ df' = create_radar_plot_data(df, unique_chip_batches[i],
                                        unique_chip_batches[j])
    /\ pc' = "applied"
    /\ UNCHANGED <<csv, index_html, prior_index, failed_at, cleaned, logo_base64,
                   views, unique_chip_batches, unique_instruments,
                   instrument_comparison_fig, bar_fig, html_content, client_plot>>

CallBarPlot ==
    /\ pc = "aggregate"
    /\ \E group_type \in {"chipBatch", "Instrument"} :
        \E i, j \in 1..Len(GroupValues(group_type)) :
            bar_fig' = [group_type |-> group_type,
                        value1 |-> GroupValues(group_type)[i],
                        value2 |-> GroupValues(group_type)[j],
                        fig |-> create_bar_plot(df, group_type,
                                                GroupValues(group_type)[i],
                                                GroupValues(group_type)[j])]
    /\ pc' = "applied"
    /\ UNCHANGED <<csv, index_html, prior_index, failed_at, df, cleaned,
                   logo_base64, views, unique_chip_batches, unique_instruments,
                   batch_comparison_fig, instrument_comparison_fig, html_content,
                   client_plot>>

\* Lines 484-487: a change of a dropdown of the written page; the selects
\* hold two of the offered values.
GroupOptions(groupType) ==
    IF groupType = "chipBatch" THEN html_content.batch_options
    ELSE html_content.instrument_options

ChangeDropdown ==
    /\ pc = "aggregate"
    /\ index_html = "complete"
    /\ \E groupType \in {"chipBatch", "Instrument"} :
        \E i, j \in 1..Len(GroupOptions(groupType)) :
            client_plot' =
                [groupType |-> groupType,
                 value1 |-> GroupOptions(groupType)[i],
                 value2 |-> GroupOptions(groupType)[j],
                 plot |-> updateComparisonPlot(html_content, groupType,
                                               GroupOptions(groupType)[i],
                                               GroupOptions(groupType)[j])]
    /\ pc' = "applied"
    /\ UNCHANGED <<csv, index_html, prior_index, failed_at, df, cleaned,
                   logo_base64, views, unique_chip_batches, unique_instruments,
                   batch_comparison_fig, instrument_comparison_fig, bar_fig,
                   html_content>>

NextAgg ==
    \/ CallRadarPlot
    \/ CallBarPlot
    \/ ChangeDropdown

SpecAgg == InitAgg /\ [][NextAgg]_vars

----------------------------------------------------------------------------
(* The loader and cleaner, checked under Spec *)

\* Line 26 has run without raising: cleaned holds the cleaned frame.
CleanDone ==
    /\ pc \notin {"read_csv", "clean"}
    /\ failed_at \notin {"read_csv", "clean"}

\* The cleaning stage has run, to its end or to an exception.
CleanAttempted == pc \notin {"read_csv", "clean"} /\ failed_at # "read_csv"

\* The rows of the file whose chipBatch text is a number.
CoercibleRows ==
    LET Coercible(r) == IsFloatText(r.chipBatch)
    IN  SelectSeq(csv, Coercible)

Min2(a, b) == IF a < b THEN a ELSE b

\* C1: once cleaning has run, it has not aborted the run, the cleaned frame
\* holds exactly the rows of the file whose chipBatch is coercible to a
\* number, in order, and each kept chipBatch is the coerced number with its
\* fraction cut off toward zero.
C1_RetainedIffCoercible ==
    CleanAttempted =>
        /\ failed_at # "clean"
        /\ Len(cleaned) = Len(CoercibleRows)
        /\ \A k \in 1..Len(cleaned) :
            LET x == ParseFloat(CoercibleRows[k].chipBatch)
                whole == x.mag \div Pow10(x.exp)
            IN  /\ x.k = "fin"
                /\ cleaned[k].chipBatch = IntCell(IF x.neg THEN -whole ELSE whole)
                /\ cleaned[k].sample_loading_time =
                       CoercibleRows[k].sample_loading_time

\* C2: in the cleaned frame, Instrument is the first min(4, length)
\* characters of the assayID text of the file, whatever that text looks like.
C2_InstrumentIsTextPrefix ==
    CleanDone =>
        /\ Len(cleaned) = Len(CoercibleRows)
        /\ \A k \in 1..Len(cleaned) :
            LET text == CoercibleRows[k].assayID
            IN  cleaned[k].Instrument = StrCell(SubSeq(text, 1, Min2(4, Len(text))))

\* The cleaned frame written back as a CSV file: one line per row, each
\* value as its text.
Reserialize(data) ==
    [i \in 1..Len(data) |->
        [assayID |-> CellToStr(data[i].assayID),
         chipBatch |-> CellToStr(data[i].chipBatch),
         sample_loading_time |-> data[i].sample_loading_time]]

\* Lines 15-26 applied to a file.
LoadAndClean(rows) ==
    astype_int(dropna(to_numeric(derive_instrument(astype_str(read_csv(rows))))))

\* C6: loading and cleaning the re-serialized cleaned frame gives the
\* cleaned frame again.
C6_CleaningIdempotent ==
    CleanDone => LoadAndClean(Reserialize(cleaned)) = cleaned

----------------------------------------------------------------------------
(* The aggregator, checked under SpecAgg *)

IsNone(x) == DOMAIN x = {"none"}

\* The sample_loading_time values of the rows of one group.
TimesOf(data, col, value) ==
    LET InGroup(r) == r[col] = value
        rows == SelectSeq(data, InGroup)
    IN  [i \in 1..Len(rows) |-> rows[i].sample_loading_time]

\* The population standard deviation of a non-empty series, as its square:
\* the squared deviations from the mean m = a/b, summed and divided by n.
PopulationStd(values) ==
    LET n == Len(values)
        m == Rat(SeqSum(values), n)
        dev2 == [i \in 1..n |-> (values[i] * m.den - m.num) * (values[i] * m.den - m.num)]
    IN  Num(Rat(SeqSum(dev2), m.den * m.den * n))

\* C3: the standard deviation create_radar_plot and create_bar_plot give for
\* a group is the population standard deviation of the group's
\* sample_loading_time values (the squared deviations divided by n).
C3_StdIsPopulationStd ==
    /\ ~IsNone(batch_comparison_fig) =>
           \A k \in 1..2 :
               batch_comparison_fig.traces[k].std =
                   PopulationStd(TimesOf(df, "chipBatch",
                                         batch_comparison_fig.traces[k].name))
    /\ ~IsNone(bar_fig) =>
           \A k \in 1..Len(bar_fig.fig.bars) :
               bar_fig.fig.bars[k].std =
                   PopulationStd(TimesOf(df, bar_fig.group_type,
                                         bar_fig.fig.bars[k].key))

\* C4: for a selected group of exactly one row, the mean is that row's
\* sample_loading_time and the standard deviation is 0.
C4_SingleRowGroup ==
    /\ ~IsNone(batch_comparison_fig) =>
           \A k \in 1..2 :
               LET times == TimesOf(df, "chipBatch",
                                    batch_comparison_fig.traces[k].name)
               IN  Len(times) = 1 =>
                       /\ batch_comparison_fig.traces[k].mean = Rat(times[1], 1)
                       /\ batch_comparison_fig.traces[k].std = Num(Rat(0, 1))
    /\ ~IsNone(bar_fig) =>
           \A k \in 1..Len(bar_fig.fig.bars) :
               LET times == TimesOf(df, bar_fig.group_type, bar_fig.fig.bars[k].key)
               IN  Len(times) = 1 =>
                       /\ bar_fig.fig.bars[k].mean = Rat(times[1], 1)
                       /\ bar_fig.fig.bars[k].std = Num(Rat(0, 1))

Perms(n) == {p \in [1..n -> 1..n] : \A i, j \in 1..n : p[i] = p[j] => i = j}

Permute(data, p) == [i \in 1..Len(data) |-> data[p[i]]]

RadarStats(fig) ==
    [k \in 1..2 |-> [name |-> fig.traces[k].name,
                     mean |-> fig.traces[k].mean,
                     std |-> fig.traces[k].std,
                     min |-> fig.traces[k].min,
                     max |-> fig.traces[k].max]]

\* C5: the statistics of a figure computed from the frame are those computed
\* from every reordering of the frame's rows, for the same grouping field
\* and the same two selected values.
C5_OrderIndependent ==
    /\ ~IsNone(batch_comparison_fig) =>
           \A p \in Perms(Len(df)) :
               RadarStats(create_radar_plot(Permute(df, p),
                                            batch_comparison_fig.traces[1].name,
                                            batch_comparison_fig.traces[2].name))
                   = RadarStats(batch_comparison_fig)
    /\ ~IsNone(bar_fig) =>
           \A p \in Perms(Len(df)) :
               create_bar_plot(Permute(df, p), bar_fig.group_type,
                               bar_fig.value1, bar_fig.value2).bars
                   = bar_fig.fig.bars

\* A radar figure of two different batches, one of whose groups holds a
\* larger value before a smaller one.
C5_Witness ==
    /\ pc = "applied"
    /\ ~IsNone(batch_comparison_fig)
    /\ batch_comparison_fig.traces[1].name # batch_comparison_fig.traces[2].name
    /\ \E i, j \in 1..Len(df) :
        /\ i < j
        /\ df[i].chipBatch = batch_comparison_fig.traces[1].name
        /\ df[j].chipBatch = batch_comparison_fig.traces[1].name
        /\ df[i].sample_loading_time > df[j].sample_loading_time

\* C9: for two batch values of the dropdowns, the page's script draws a
\* chart, for each batch from the rows create_radar_plot selects, with the
\* mean, standard deviation, minimum and maximum create_radar_plot computes.
C9_ClientMatchesServer ==
    (~IsNone(client_plot) /\ client_plot.groupType = "chipBatch") =>
        LET server == create_radar_plot(df, IntCell(ParseInt(client_plot.value1)),
                                        IntCell(ParseInt(client_plot.value2)))
            client == client_plot.plot
        IN  /\ ~server.err
            /\ ~client.err
            /\ \A k \in 1..2 :
                /\ [i \in 1..Len(client.traces[k].rows) |->
                        client.traces[k].rows[i].assayID.s]
                       = [i \in 1..Len(server.traces[k].customdata) |->
                              server.traces[k].customdata[i].s]
                /\ client.traces[k].mean = server.traces[k].mean
                /\ client.traces[k].std = server.traces[k].std
                /\ client.traces[k].min = server.traces[k].min
                /\ client.traces[k].max = server.traces[k].max

----------------------------------------------------------------------------
(* The run as a whole, checked under Spec *)

StagesDone ==
    /\ logo_base64 = "encoded"
    /\ ~IsNone(views)
    /\ ~IsNone(batch_comparison_fig)
    /\ ~IsNone(instrument_comparison_fig)
    /\ ~IsNone(html_content)

\* C7 as stated: a run that failed has left no index.html, or, when it
\* failed before the writing started, has left the one it found untouched.
C7_FailureLeavesNoOutput ==
    pc = "aborted" =>
        IF failed_at = "write"
        THEN index_html = "absent"
        ELSE index_html = prior_index

\* C7, amended: a run that failed before the write of line 495 has left
\* index.html as it found it, absent or untouched; index.html differs from
\* what the run found only once every earlier stage has completed; and a
\* run that failed in the write has left an empty or partial file.
C7_FailureBeforeWriteLeavesOutput ==
    /\ (pc = "aborted" /\ failed_at # "write") => index_html = prior_index
    /\ index_html # prior_index => StagesDone
    /\ failed_at = "write" => index_html \in {"empty", "partial"}

\* A run with an index.html of an earlier run that failed in an aggregation.
C7_Witness ==
    /\ pc = "aborted"
    /\ failed_at \in {"batch_comparison", "instrument_comparison"}
    /\ prior_index = "previous"
    /\ index_html = "previous"

\* C8: from the end of the cleaning on, df is the cleaned frame, and the
\* rows embedded in the page are the rows of the cleaned frame, value for
\* value.
C8_FrameUnchangedAfterCleaning ==
    /\ CleanDone => df = cleaned
    /\ ~IsNone(html_content) =>
           /\ Len(html_content.data) = Len(cleaned)
           /\ \A k \in 1..Len(cleaned) :
               /\ html_content.data[k].assayID.s = cleaned[k].assayID.s
               /\ html_content.data[k].Instrument.s = cleaned[k].Instrument.s
               /\ html_content.data[k].chipBatch.t = "number"
               /\ html_content.data[k].chipBatch.n = cleaned[k].chipBatch.i
               /\ html_content.data[k].sample_loading_time.n =
                      cleaned[k].sample_loading_time

\* A finished run whose cleaning dropped a row and kept others, with every
\* chart built and the page written.
C8_Witness ==
    /\ pc = "done"
    /\ Len(cleaned) < Len(csv)
    /\ Len(html_content.data) > 1

BatchSet == {cleaned[k].chipBatch : k \in 1..Len(cleaned)}

InstrumentSet == {cleaned[k].Instrument : k \in 1..Len(cleaned)}

\* v1 and v2 are the two smallest distinct values of the set.
TwoSmallest(v1, v2, values) ==
    /\ v1 \in values
    /\ v2 \in values
    /\ CellLess(v1, v2)
    /\ \A v \in values : v # v1 => (CellLess(v1, v) /\ (v # v2 => CellLess(v2, v)))

\* C10: an initial comparison the run has made is of the two smallest
\* distinct values of its field, each with at least one row; the run fails
\* in a comparison only for want of two distinct values; and with fewer than
\* two distinct values the run makes no comparison and goes no further.
C10_InitialComparisonValues ==
    /\ ~IsNone(batch_comparison_fig) =>
           /\ TwoSmallest(batch_comparison_fig.traces[1].name,
                          batch_comparison_fig.traces[2].name, BatchSet)
           /\ \A k \in 1..2 : Len(batch_comparison_fig.traces[k].customdata) > 0
    /\ ~IsNone(instrument_comparison_fig) =>
           /\ TwoSmallest(instrument_comparison_fig.traces[1].name,
                          instrument_comparison_fig.traces[2].name, InstrumentSet)
           /\ \A k \in 1..2 : Len(instrument_comparison_fig.traces[k].y) > 0
    /\ failed_at = "batch_comparison" => Cardinality(BatchSet) < 2
    /\ failed_at = "instrument_comparison" => Cardinality(InstrumentSet) < 2
    /\ (CleanDone /\ Cardinality(BatchSet) < 2) =>
           /\ IsNone(batch_comparison_fig)
           /\ pc \in {"logo", "views", "batch_comparison", "aborted"}
    /\ (CleanDone /\ Cardinality(InstrumentSet) < 2) =>
           /\ IsNone(instrument_comparison_fig)
           /\ pc \in {"logo", "views", "batch_comparison",
                      "instrument_comparison", "aborted"}

\* Both comparisons made, on a frame with three batches and three
\* instruments whose rows are not in ascending order of batch.
C10_Witness ==
    /\ ~IsNone(batch_comparison_fig)
    /\ ~IsNone(instrument_comparison_fig)
    /\ Cardinality(BatchSet) = 3
    /\ Cardinality(InstrumentSet) = 3
    /\ CellLess(cleaned[2].chipBatch, cleaned[1].chipBatch)

====
